---- MODULE Spec2Model ----
(***************************************************************************)
(* A model of the exFAT image reader of src/src/exfat.ts.                  *)
(*                                                                         *)
(* The image is a sequence of bytes.  Every decoding step of the reader    *)
(* (little-endian words, FAT links, cluster slices, 32-byte directory      *)
(* slots, UTF-16LE names, path splitting) is computed on those bytes as    *)
(* the source computes it.  A caller holds at most one result at a time    *)
(* (pc = "returned") and may write into a byte array it was handed.        *)
(*                                                                         *)
(* Numbers.  The source works on IEEE doubles; the model's integers are    *)
(* 32-bit.  An unsigned 32-bit word read from the image is therefore kept  *)
(* as two 16-bit limbs [hi, lo]; it is turned into an integer (ToNum) only *)
(* where the source does arithmetic on it, which in readChain happens only *)
(* for a cluster index below 0x0FFFFFFF.  The images of the model hold     *)
(* sizes and in-range cluster indices far below 2^31.                      *)
(*                                                                         *)
(* Strings are sequences of UTF-16 code units.                             *)
(***************************************************************************)
EXTENDS Integers, Sequences, FiniteSets, TLC

VARIABLES buf, boot, image0, pc, op, ret, writes

vars == <<buf, boot, image0, pc, op, ret, writes>>

(***************************************************************************)
(* Small helpers                                                           *)
(***************************************************************************)
Min(a, b) == IF a <= b THEN a ELSE b
Max(a, b) == IF a >= b THEN a ELSE b

RECURSIVE Pow2(_)
Pow2(n) == IF n = 0 THEN 1 ELSE 2 * Pow2(n - 1)

Zeros(n) == [k \in 1..n |-> 0]

RECURSIVE Flatten(_)
Flatten(ss) == IF ss = <<>> THEN <<>> ELSE Head(ss) \o Flatten(Tail(ss))

(* An unsigned 32-bit word as two 16-bit limbs. *)
U32(h, l) == [hi |-> h, lo |-> l]
U32Of(n) == U32(n \div 65536, n % 65536)
U32Ge(v, w) == v.hi > w.hi \/ (v.hi = w.hi /\ v.lo >= w.lo)
ToNum(v) == v.hi * 65536 + v.lo

(* byte o (0-based) of a byte sequence, as data[o] *)
At(data, o) == data[o + 1]

(***************************************************************************)
(* Program constants                                                       *)
(***************************************************************************)
EntrySize == 32
TypeUnused == 0
TypeFile == 133
TypeStream == 192
TypeName == 193
AttrDirectory == 16
OffFatOffset == 80
OffFatLength == 84
OffHeapOffset == 88
OffClusterCount == 92
OffRootCluster == 96
OffSectorShift == 108
OffClusterShift == 109
OffFirstCluster == 20
OffSize == 24
OffName == 2
FirstDataCluster == 2
Slash == 47
NUL == 0

(* 0xffffffff, 0xfffffff8 and 0x0fffffff *)
AllOnes == U32(65535, 65535)
EocMin == U32(65535, 65528)
ClusterLimit == U32(4095, 65535)

(* limitBytes omitted (undefined) *)
NoLimit == -1

(***************************************************************************)
(* Word access                                                             *)
(***************************************************************************)
readU32(d, o) ==
  U32(At(d, o + 2) + 256 * At(d, o + 3), At(d, o) + 256 * At(d, o + 1))

(* hi * 2^32 + lo, for the sizes the model holds (hi = 0, lo < 2^31) *)
readU64(d, o) ==
  LET lo == readU32(d, o)
      hi == readU32(d, o + 4)
  IN  IF hi = U32(0, 0) /\ lo.hi < 32768 THEN ToNum(lo) ELSE 2147483647

(* 1 << n on 32-bit integers, for n % 32 < 31 *)
Shl1(n) == Pow2(n % 32)

parseBoot(b) ==
  LET bytesPerSectorShift == At(b, OffSectorShift)
      sectorsPerClusterShift == At(b, OffClusterShift)
      sectorSize == Shl1(bytesPerSectorShift)
      clusterSize == sectorSize * Shl1(sectorsPerClusterShift)
      fatOffset == ToNum(readU32(b, OffFatOffset))
      fatLength == ToNum(readU32(b, OffFatLength))
      clusterHeapOffset == ToNum(readU32(b, OffHeapOffset))
      clusterCount == ToNum(readU32(b, OffClusterCount))
      rootDirCluster == readU32(b, OffRootCluster)
  IN  [sectorSize |-> sectorSize,
       clusterSize |-> clusterSize,
       fatOffsetBytes |-> fatOffset * sectorSize,
       fatLengthBytes |-> fatLength * sectorSize,
       clusterHeapOffsetBytes |-> clusterHeapOffset * sectorSize,
       clusterCount |-> clusterCount,
       rootDirCluster |-> rootDirCluster]

clusterOffset(bt, cluster) ==
  bt.clusterHeapOffsetBytes + (cluster - FirstDataCluster) * bt.clusterSize

readFATNext(b, bt, cluster) ==
  LET off == bt.fatOffsetBytes + cluster * 4
  IN  IF off + 4 > Len(b) THEN AllOnes ELSE readU32(b, off)

isEndOfChain(v) == U32Ge(v, EocMin) \/ v = AllOnes \/ v = U32(0, 0)

(***************************************************************************)
(* Typed-array views.  A view is a window [off, off + len) on the image's  *)
(* storage; subarray clamps both ends into the view (begin, end >= 0).     *)
(***************************************************************************)
Subarray(v, begin, end) ==
  LET lo == Min(begin, v.len)
      hi == Min(end, v.len)
  IN  [off |-> v.off + lo, len |-> Max(hi - lo, 0)]

ViewBytes(b, v) == SubSeq(b, v.off + 1, v.off + v.len)

(***************************************************************************)
(* readChain.  The loop state is [c, remaining, chunks]; chunks holds the  *)
(* pushed views in order.  visited records the cluster of every pushed     *)
(* chunk, for the properties that speak of the traversal.                  *)
(***************************************************************************)
InClusterRange(c) == U32Ge(c, U32Of(FirstDataCluster)) /\ ~U32Ge(c, ClusterLimit)

ChainStart(startCluster, limitBytes) ==
  [c |-> startCluster, remaining |-> limitBytes, chunks |-> <<>>,
   visited |-> <<>>, run |-> "loop"]

(* line 89: the cluster's slice of the image, clamped to the image *)
ClusterSliceLengthAsEnd(b, bt, c) ==
  Subarray([off |-> 0, len |-> Len(b)], clusterOffset(bt, c), bt.clusterSize)

ClusterSlice(b, bt, c) ==
  LET off == clusterOffset(bt, c)
      size == bt.clusterSize
  IN  Subarray([off |-> 0, len |-> Len(b)], off, off + size)

(* line 94: the part of the slice that the remaining budget allows *)
TakeChunkWhole(slice, remaining) == slice

TakeChunk(slice, remaining) == Subarray(slice, 0, Min(slice.len, remaining))

(* one evaluation of the while condition and, if it holds, of the body *)
ChainStep(b, bt, st) ==
  IF ~InClusterRange(st.c) THEN [st EXCEPT !.run = "done"]
  ELSE
    LET c == ToNum(st.c)
        Pushed(slice) ==
          IF st.remaining = NoLimit
          THEN [st EXCEPT !.chunks = Append(@, slice),
                          !.visited = Append(@, c)]
          ELSE [st EXCEPT !.chunks = Append(@, TakeChunk(slice, st.remaining)),
                          !.remaining = @ - Min(slice.len, st.remaining),
                          !.visited = Append(@, c)]
        Linked(pushed, next) ==
          IF isEndOfChain(next)
          THEN [pushed EXCEPT !.run = "done"]
          ELSE [pushed EXCEPT !.c = next]
    IN  IF st.remaining # NoLimit /\ st.remaining <= 0
        THEN [st EXCEPT !.run = "done"]
        ELSE Linked(Pushed(ClusterSlice(b, bt, c)), readFATNext(b, bt, c))

(* The loop is deterministic in (c, remaining): when a pair recurs the     *)
(* loop never ends, and the call is reported as "diverges".                *)
RECURSIVE ChainLoop(_, _, _, _)
ChainLoop(b, bt, st, seen) ==
  IF st.run = "done" THEN st
  ELSE IF <<st.c, st.remaining>> \in seen THEN [st EXCEPT !.run = "diverges"]
  ELSE ChainLoop(b, bt, ChainStep(b, bt, st), seen \cup {<<st.c, st.remaining>>})

(* lines 101-110: one chunk is returned as it is, a view on the image;     *)
(* otherwise the chunks are copied into a new array                        *)
ChainResult(b, st) ==
  IF Len(st.chunks) = 1
  THEN [shared |-> TRUE, off |-> st.chunks[1].off, bytes |-> ViewBytes(b, st.chunks[1])]
  ELSE [shared |-> FALSE, off |-> 0,
        bytes |-> Flatten([k \in 1..Len(st.chunks) |-> ViewBytes(b, st.chunks[k])])]

readChain(b, bt, startCluster, limitBytes) ==
  LET Returned(st) ==
        [status |-> IF st.run = "done" THEN "returned" ELSE "diverges",
         arr |-> ChainResult(b, st),
         chunks |-> st.chunks,
         visited |-> st.visited]
  IN  Returned(ChainLoop(b, bt, ChainStart(startCluster, limitBytes), {}))

(***************************************************************************)
(* readDirectory.  TD16.decode of a 30-byte name part gives 15 code units  *)
(* (the images of the model hold no byte-order mark and no surrogate, the  *)
(* code units a TextDecoder would drop or replace).                        *)
(***************************************************************************)
TD16Decode(bytes) ==
  [k \in 1..(Len(bytes) \div 2) |-> bytes[2 * k - 1] + 256 * bytes[2 * k]]

(* name.replace(/\u0000+$/g, "") *)
RECURSIVE StripTrailingNul(_)
StripTrailingNul(name) ==
  IF name # <<>> /\ name[Len(name)] = NUL
  THEN StripTrailingNul(SubSeq(name, 1, Len(name) - 1))
  ELSE name

SecondaryStepStopAtPrimary(data, secondaryCount, s) ==
  IF ~(s.consumed <= secondaryCount /\ s.j + EntrySize <= Len(data))
       \/ At(data, s.j) = TypeFile
  THEN [s EXCEPT !.run = "done"]
  ELSE [s EXCEPT !.consumed = @ + 1, !.j = @ + EntrySize]

(* one evaluation of the inner while condition (line 136) and of its body *)
SecondaryStep(data, secondaryCount, s) ==
  IF ~(s.consumed <= secondaryCount /\ s.j + EntrySize <= Len(data))
  THEN [s EXCEPT !.run = "done"]
  ELSE
    LET st == At(data, s.j)
    IN  IF st = TypeStream
        THEN [s EXCEPT !.firstCluster = readU32(data, s.j + OffFirstCluster),
                       !.size = readU64(data, s.j + OffSize),
                       !.consumed = @ + 1,
                       !.j = @ + EntrySize]
        ELSE IF st = TypeName
        THEN [s EXCEPT !.name = @ \o TD16Decode(SubSeq(data, s.j + OffName + 1,
                                                       s.j + EntrySize)),
                       !.consumed = @ + 1,
                       !.j = @ + EntrySize]
        ELSE [s EXCEPT !.consumed = @ + 1, !.j = @ + EntrySize]

RECURSIVE SecondaryLoop(_, _, _)
SecondaryLoop(data, secondaryCount, s) ==
  IF s.run = "done" THEN s
  ELSE SecondaryLoop(data, secondaryCount, SecondaryStep(data, secondaryCount, s))

(* one pass of the outer loop body (lines 123-160) at scan position st.i;  *)
(* scan records the position of every pass and where it resumed            *)
DirStep(data, st) ==
  LET i == st.i
      et == At(data, i)
  IN  IF et = TypeUnused
      THEN [st EXCEPT !.i = i + EntrySize,
                      !.scan = Append(@, [pos |-> i, next |-> i + EntrySize,
                                          emitted |-> FALSE])]
      ELSE IF et = TypeFile
      THEN
        LET secondaryCount == At(data, i + 1)
            isDir == (At(data, i + 4) \div AttrDirectory) % 2 # 0
            Emit(s) ==
              [st EXCEPT !.res = Append(@, [name |-> StripTrailingNul(s.name),
                                            isDir |-> isDir, size |-> s.size,
                                            firstCluster |-> s.firstCluster]),
                         !.i = s.j,
                         !.scan = Append(@, [pos |-> i, next |-> s.j, emitted |-> TRUE])]
        IN  Emit(SecondaryLoop(data, secondaryCount,
                               [name |-> <<>>, firstCluster |-> U32(0, 0), size |-> 0,
                                consumed |-> 1, j |-> i + EntrySize, run |-> "loop"]))
      ELSE [st EXCEPT !.i = i + EntrySize,
                      !.scan = Append(@, [pos |-> i, next |-> i + EntrySize,
                                          emitted |-> FALSE])]

RECURSIVE DirLoop(_, _)
DirLoop(data, st) ==
  IF st.i + EntrySize <= Len(data) THEN DirLoop(data, DirStep(data, st)) ELSE st

DecodeDirectory(data) == DirLoop(data, [i |-> 0, res |-> <<>>, scan |-> <<>>])

readDirectory(b, bt, startCluster) ==
  LET Decoded(data, st) ==
        [status |-> "returned", entries |-> st.res, scan |-> st.scan, data |-> data]
      Entries(ch) ==
        IF ch.status = "returned"
        THEN Decoded(ch.arr.bytes, DecodeDirectory(ch.arr.bytes))
        ELSE [status |-> "diverges", entries |-> <<>>, scan |-> <<>>, data |-> <<>>]
  IN  Entries(readChain(b, bt, startCluster, NoLimit))

(***************************************************************************)
(* Paths                                                                   *)
(***************************************************************************)
(* p.split("/") *)
RECURSIVE Split(_, _)
Split(p, cur) ==
  IF p = <<>> THEN <<cur>>
  ELSE IF Head(p) = Slash THEN <<cur>> \o Split(Tail(p), <<>>)
  ELSE Split(Tail(p), Append(cur, Head(p)))

RECURSIVE FilterNonEmpty(_)
FilterNonEmpty(ss) ==
  IF ss = <<>> THEN <<>>
  ELSE IF Head(ss) = <<>> THEN FilterNonEmpty(Tail(ss))
  ELSE <<Head(ss)>> \o FilterNonEmpty(Tail(ss))

normalizePath(p) == FilterNonEmpty(Split(p, <<>>))

(* parts.join("/") *)
RECURSIVE JoinParts(_)
JoinParts(parts) ==
  IF parts = <<>> THEN <<>>
  ELSE IF Len(parts) = 1 THEN parts[1]
  ELSE parts[1] \o <<Slash>> \o JoinParts(Tail(parts))

(* entries.find(pred): the index of the first match, 0 when there is none *)
Find(entries, Pred(_)) ==
  LET hits == {k \in 1..Len(entries) : Pred(entries[k])}
  IN  IF hits = {} THEN 0 ELSE CHOOSE k \in hits : \A m \in hits : k <= m

(***************************************************************************)
(* The public operations.  Each returns a record whose status is           *)
(* "returned", "diverges" (a chain read that never ends) or "overflows"    *)
(* (walk recursing without end).                                           *)
(***************************************************************************)
ListMatch(e, part) == e.isDir /\ e.name = part

RECURSIVE ListFrom(_, _, _, _, _)
ListFrom(b, bt, parts, idx, cluster) ==
  LET In(d) ==
        LET k == Find(d.entries, LAMBDA e : ListMatch(e, parts[idx]))
        IN  IF d.status # "returned" THEN [status |-> "diverges", items |-> <<>>]
            ELSE IF idx > Len(parts)
            THEN [status |-> "returned",
                  items |-> [n \in 1..Len(d.entries) |->
                               [name |-> d.entries[n].name, isDir |-> d.entries[n].isDir,
                                size |-> d.entries[n].size]]]
            ELSE IF k = 0 THEN [status |-> "returned", items |-> <<>>]
            ELSE ListFrom(b, bt, parts, idx + 1, d.entries[k].firstCluster)
  IN  In(readDirectory(b, bt, cluster))

list(b, bt, path) == ListFrom(b, bt, normalizePath(path), 1, bt.rootDirCluster)

ExistsMatchFilesOnly(e, part, last) == e.name = part /\ (IF ~last THEN e.isDir ELSE ~e.isDir)

ExistsMatch(e, part, last) == e.name = part /\ (last \/ e.isDir)

RECURSIVE ExistsFrom(_, _, _, _, _)
ExistsFrom(b, bt, parts, idx, cluster) ==
  IF idx > Len(parts) THEN [status |-> "returned", value |-> TRUE]
  ELSE
    LET last == idx = Len(parts)
        In(d) ==
          LET k == Find(d.entries, LAMBDA e : ExistsMatch(e, parts[idx], last))
          IN  IF d.status # "returned" THEN [status |-> "diverges", value |-> FALSE]
              ELSE IF k = 0 THEN [status |-> "returned", value |-> FALSE]
              ELSE ExistsFrom(b, bt, parts, idx + 1, d.entries[k].firstCluster)
    IN  In(readDirectory(b, bt, cluster))

exists(b, bt, path) == ExistsFrom(b, bt, normalizePath(path), 1, bt.rootDirCluster)

ReadFileMatchAnyKind(e, part, last) == e.name = part /\ (last \/ e.isDir)

ReadFileMatch(e, part, last) == e.name = part /\ (IF ~last THEN e.isDir ELSE ~e.isDir)

NoArray == [shared |-> FALSE, off |-> 0, bytes |-> <<>>]

(* lines 232 and 262: the file's chain, bounded by its declared size *)
FileBytesUnbounded(b, bt, e) == readChain(b, bt, e.firstCluster, NoLimit)

FileBytes(b, bt, e) == readChain(b, bt, e.firstCluster, e.size)

RECURSIVE ReadFileFrom(_, _, _, _, _)
ReadFileFrom(b, bt, parts, idx, cluster) ==
  IF idx > Len(parts)
  THEN [status |-> "returned", null |-> TRUE, arr |-> NoArray, entry |-> <<>>]
  ELSE
    LET last == idx = Len(parts)
        Read(found, ch) ==
          [status |-> ch.status, null |-> FALSE, arr |-> ch.arr, entry |-> <<found>>]
        In(d) ==
          LET k == Find(d.entries, LAMBDA e : ReadFileMatch(e, parts[idx], last))
              found == d.entries[k]
          IN  IF d.status # "returned"
              THEN [status |-> "diverges", null |-> TRUE, arr |-> NoArray, entry |-> <<>>]
              ELSE IF k = 0
              THEN [status |-> "returned", null |-> TRUE, arr |-> NoArray, entry |-> <<>>]
              ELSE IF last
              THEN Read(found, FileBytes(b, bt, found))
              ELSE ReadFileFrom(b, bt, parts, idx + 1, found.firstCluster)
    IN  In(readDirectory(b, bt, cluster))

readFile(b, bt, path) == ReadFileFrom(b, bt, normalizePath(path), 1, bt.rootDirCluster)

(* walk: the directory the path resolves to, 0-tuple when it does not *)
WalkMatch(e, part) == e.isDir /\ e.name = part

RECURSIVE WalkResolve(_, _, _, _, _)
WalkResolve(b, bt, parts, idx, cluster) ==
  IF idx > Len(parts) THEN [status |-> "returned", cluster |-> <<cluster>>]
  ELSE
    LET In(d) ==
          LET k == Find(d.entries, LAMBDA e : WalkMatch(e, parts[idx]))
          IN  IF d.status # "returned" THEN [status |-> "diverges", cluster |-> <<>>]
              ELSE IF k = 0 THEN [status |-> "returned", cluster |-> <<>>]
              ELSE WalkResolve(b, bt, parts, idx + 1, d.entries[k].firstCluster)
    IN  In(readDirectory(b, bt, cluster))

(* line 253 *)
ChildPath(currentPath, name) ==
  IF currentPath = <<Slash>> THEN <<Slash>> \o name ELSE currentPath \o <<Slash>> \o name

(* A walk item carries, beside path, isDir and size, the entry e its read  *)
(* accessor closes over, and its trail: the entry indices leading to it    *)
(* from the walked directory, which identify its place in the tree.        *)
WalkItem(p, e, trail) ==
  [path |-> p, isDir |-> e.isDir, size |-> e.size, e |-> e, trail |-> trail]

Push(acc, item) == [acc EXCEPT !.items = Append(@, item)]

RECURSIVE visit(_, _, _, _, _, _, _)
RECURSIVE VisitEntries(_, _, _, _, _, _, _, _)

VisitDirPostOrder(b, bt, p, e, trail, anc, acc) ==
  Push(visit(b, bt, p, e.firstCluster, trail, anc, acc), WalkItem(p, e, trail))

VisitDirNoDescent(b, bt, p, e, trail, anc, acc) == Push(acc, WalkItem(p, e, trail))

(* lines 254-256: push the directory's own item, then visit it *)
VisitDir(b, bt, p, e, trail, anc, acc) ==
  visit(b, bt, p, e.firstCluster, trail, anc, Push(acc, WalkItem(p, e, trail)))

(* the for loop of visit, from entry k on *)
VisitEntries(b, bt, currentPath, entries, k, trail, anc, acc) ==
  IF k > Len(entries) \/ acc.status # "returned" THEN acc
  ELSE
    LET e == entries[k]
        p == ChildPath(currentPath, e.name)
        t == Append(trail, k)
    IN  VisitEntries(b, bt, currentPath, entries, k + 1, trail, anc,
          IF e.isDir THEN VisitDir(b, bt, p, e, t, anc, acc)
          ELSE Push(acc, WalkItem(p, e, t)))

(* anc holds the clusters of the visits in progress: meeting one of them   *)
(* again repeats the same descent for ever, until the call stack overflows *)
visit(b, bt, currentPath, c, trail, anc, acc) ==
  LET In(d) ==
        IF d.status # "returned" THEN [acc EXCEPT !.status = "diverges"]
        ELSE VisitEntries(b, bt, currentPath, d.entries, 1, trail, anc \cup {c}, acc)
  IN  IF acc.status # "returned" THEN acc
      ELSE IF c \in anc THEN [acc EXCEPT !.status = "overflows"]
      ELSE In(readDirectory(b, bt, c))

walk(b, bt, path) ==
  LET From(parts, r) ==
        IF r.status # "returned" THEN [status |-> "diverges", items |-> <<>>]
        ELSE IF r.cluster = <<>> THEN [status |-> "returned", items |-> <<>>]
        ELSE visit(b, bt,
                   IF Len(parts) > 0 THEN <<Slash>> \o JoinParts(parts) ELSE <<Slash>>,
                   r.cluster[1], <<>>, {}, [status |-> "returned", items |-> <<>>])
      Resolved(parts) == From(parts, WalkResolve(b, bt, parts, 1, bt.rootDirCluster))
  IN  Resolved(normalizePath(path))

(***************************************************************************)
(* The images of the model.  One layout: a boot region, a FAT and a heap   *)
(* of one-slot clusters holding                                            *)
(*   clusters 2-7    the root directory: a directory entry set (name1,     *)
(*                   first cluster 8) and a second entry set (name2,       *)
(*                   first cluster 11, file or directory, size2);          *)
(*   clusters 8-10   a directory holding the file "x" (cluster 14, sizeX); *)
(*   clusters 11-13  a directory holding the file "y" (cluster 15), which  *)
(*                   is also the content of the second entry as a file;    *)
(*   clusters 14, 15 file data.                                            *)
(* An image varies the names and sizes, overrides one FAT entry, replaces  *)
(* one slot, is cut short at the end, or turns "x" into a directory whose  *)
(* first cluster is nestTo.                                                *)
(***************************************************************************)
Geometry == [bytesPerSectorShift |-> 5, sectorsPerClusterShift |-> 0,
             fatOffset |-> 4, clusterCount |-> 14, rootDirCluster |-> 2]

SectorSize == Pow2(Geometry.bytesPerSectorShift)
ClusterSize == SectorSize * Pow2(Geometry.sectorsPerClusterShift)
FatEntries == Geometry.clusterCount + FirstDataCluster
FatLength == (FatEntries * 4 + SectorSize - 1) \div SectorSize
HeapOffset == Geometry.fatOffset + FatLength

NameD == <<100>>
NameF == <<102>>
NameX == <<120>>
NameY == <<121>>
NameN == <<110>>
NameAB == <<97, Slash, 98>>

PadTo(bytes, n) == bytes \o Zeros(n - Len(bytes))
LE32(v) == <<v.lo % 256, v.lo \div 256, v.hi % 256, v.hi \div 256>>

FileSlot(secondaryCount, attr) ==
  PadTo(<<TypeFile, secondaryCount, 0, 0, attr>>, EntrySize)
StreamSlot(firstCluster, size) ==
  PadTo(<<TypeStream>>, OffFirstCluster) \o LE32(U32Of(firstCluster))
    \o LE32(U32Of(size)) \o Zeros(4)
NameSlot(name) ==
  PadTo(<<TypeName, 0>>
          \o Flatten([k \in 1..Len(name) |-> <<name[k] % 256, name[k] \div 256>>]),
        EntrySize)
DataSlot(seed) == [k \in 1..EntrySize |-> ((seed * 40 + k) % 250) + 1]
ZeroSlot == Zeros(EntrySize)

BootBytes ==
  [o \in 1..(Geometry.fatOffset * SectorSize) |->
     IF o - 1 = OffFatOffset THEN Geometry.fatOffset
     ELSE IF o - 1 = OffFatLength THEN FatLength
     ELSE IF o - 1 = OffHeapOffset THEN HeapOffset
     ELSE IF o - 1 = OffClusterCount THEN Geometry.clusterCount
     ELSE IF o - 1 = OffRootCluster THEN Geometry.rootDirCluster
     ELSE IF o - 1 = OffSectorShift THEN Geometry.bytesPerSectorShift
     ELSE IF o - 1 = OffClusterShift THEN Geometry.sectorsPerClusterShift
     ELSE 0]

(* the chains of the layout: 2-7, 8-10, 11-13, 14, 15 *)
ChainEnds == {7, 10, 13}
DefaultFat(c) ==
  IF c = 0 THEN EocMin
  ELSE IF c = 1 THEN AllOnes
  ELSE IF c \in ChainEnds \/ c >= 14 THEN AllOnes
  ELSE U32Of(c + 1)

FatBytes(p) ==
  PadTo(Flatten([n \in 1..FatEntries |->
                   LE32(IF n - 1 = p.fatK THEN p.fatV ELSE DefaultFat(n - 1))]),
        FatLength * SectorSize)

SlotPalette ==
  <<ZeroSlot, FileSlot(6, AttrDirectory), FileSlot(0, 0), FileSlot(1, 0),
    StreamSlot(2, 0), NameSlot(NameD), DataSlot(3)>>

LayoutSlots(p) ==
  <<FileSlot(2, AttrDirectory), StreamSlot(8, 0), NameSlot(p.name1),
    FileSlot(2, IF p.dir2 THEN AttrDirectory ELSE 0), StreamSlot(11, p.size2),
    NameSlot(p.name2),
    FileSlot(2, IF p.nestTo # 0 THEN AttrDirectory ELSE 0),
    StreamSlot(IF p.nestTo # 0 THEN p.nestTo ELSE 14, p.sizeX), NameSlot(NameX),
    FileSlot(2, 0), StreamSlot(15, 10), NameSlot(NameY),
    DataSlot(1), DataSlot(2)>>

HeapBytes(p) ==
  Flatten([n \in 1..Geometry.clusterCount |->
             PadTo(IF n + 1 = p.slotK THEN SlotPalette[p.slotV]
                   ELSE IF n <= 14 THEN LayoutSlots(p)[n] ELSE ZeroSlot,
                   ClusterSize)])

Image(p) ==
  LET whole == BootBytes \o FatBytes(p) \o HeapBytes(p)
  IN  SubSeq(whole, 1, Len(whole) - p.cut)

DefaultParams ==
  [name1 |-> NameD, name2 |-> NameF, dir2 |-> FALSE, size2 |-> 40, sizeX |-> 4,
   nestTo |-> 0, fatK |-> 0, fatV |-> EocMin, slotK |-> 0, slotV |-> 1, cut |-> 0]

Names == {NameD, NameF, <<>>, NameAB}
Sizes2 == {0, 32, 40, 100}
SizesX == {4, 50}
FatKeys == {7, 10, 14, 15}
FatValues == {U32(0, 0), U32(65535, 65527), ClusterLimit,
              U32Of(2), U32Of(8), U32Of(11), U32Of(14), U32Of(15), U32Of(1000)}
Cuts == {0, 40, 64}
SlotKeys == {2, 3, 5, 7, 8, 9, 11}
NestTargets == {2, 11}

SizeParams ==
  {[DefaultParams EXCEPT !.size2 = s2, !.sizeX = sx] : s2 \in Sizes2, sx \in SizesX}

ImageParams ==
       {[DefaultParams EXCEPT !.name1 = n1, !.name2 = n2, !.dir2 = d2] :
          n1 \in Names, n2 \in Names, d2 \in BOOLEAN}
  \cup SizeParams
  \cup {[DefaultParams EXCEPT !.nestTo = t, !.dir2 = d2] :
          t \in NestTargets, d2 \in BOOLEAN}
  \cup {[DefaultParams EXCEPT !.fatK = k, !.fatV = v, !.cut = c] :
          k \in FatKeys, v \in FatValues, c \in Cuts}
  \cup {[DefaultParams EXCEPT !.slotK = k, !.slotV = v] :
          k \in SlotKeys, v \in 1..Len(SlotPalette)}

(***************************************************************************)
(* The caller                                                              *)
(***************************************************************************)
MaxWrites == 1
WriteValues == {0}

Paths ==
  {<<>>, <<Slash>>,
   <<Slash>> \o NameD, <<Slash>> \o NameD \o <<Slash>>,
   <<Slash, Slash>> \o NameD \o <<Slash, Slash>> \o NameX,
   NameD \o <<Slash>> \o NameX,
   <<Slash>> \o NameD \o <<Slash>> \o NameN,
   <<Slash>> \o NameF, <<Slash>> \o NameF \o <<Slash>> \o NameY,
   <<Slash>> \o NameN, <<Slash>> \o NameAB, <<Slash>> \o NameY}

StartClusters == {U32Of(1), U32Of(2), U32Of(11), U32Of(14), U32Of(15), U32Of(1000),
                  AllOnes}
Limits == {NoLimit, 0, 4, 40, 100}

(* The paths a consumer reconstructs from list alone: list("/"), then list *)
(* on the path of every directory reported, joining names as walk does,    *)
(* down to MaxDepth nested calls.  clean tells that no joined name holds   *)
(* a "/".                                                                   *)
MaxDepth == 4

Range(f) == {f[k] : k \in DOMAIN f}

RECURSIVE Listed(_, _, _, _, _)
Listed(b, bt, dirPath, clean, depth) ==
  LET Entry(it, p, cl) ==
        {[path |-> p, isDir |-> it.isDir, clean |-> cl]}
          \cup (IF it.isDir THEN Listed(b, bt, p, cl, depth - 1) ELSE {})
      Of(r) ==
        IF depth = 0 \/ r.status # "returned" THEN {}
        ELSE UNION {Entry(it,
                          IF dirPath = <<Slash>> THEN <<Slash>> \o it.name
                          ELSE dirPath \o <<Slash>> \o it.name,
                          clean /\ Slash \notin Range(it.name))
                    : it \in Range(r.items)}
  IN  Of(list(b, bt, dirPath))

ListedPaths == {r.path : r \in Listed(buf, boot, <<Slash>>, TRUE, MaxDepth)}

NoOp == [name |-> "none", path |-> <<>>, start |-> U32(0, 0), limit |-> NoLimit]
NoRet == [status |-> "none"]

Init ==
  /\ \E p \in ImageParams : buf = Image(p)
  /\ boot = parseBoot(buf)
  /\ image0 = buf
  /\ pc = "idle"
  /\ op = NoOp
  /\ ret = NoRet
  /\ writes = 0

Call(name, path, start, limit, result) ==
  /\ pc = "idle"
  /\ pc' = "returned"
  /\ op' = [name |-> name, path |-> path, start |-> start, limit |-> limit]
  /\ ret' = result
  /\ UNCHANGED <<buf, boot, image0, writes>>

List == \E p \in Paths : Call("list", p, U32(0, 0), NoLimit, list(buf, boot, p))
Exists == \E p \in Paths \cup ListedPaths : Call("exists", p, U32(0, 0), NoLimit, exists(buf, boot, p))
ReadFile == \E p \in Paths : Call("readFile", p, U32(0, 0), NoLimit, readFile(buf, boot, p))
Walk == \E p \in Paths : Call("walk", p, U32(0, 0), NoLimit, walk(buf, boot, p))

ReadChainCall ==
  \E c \in StartClusters, n \in Limits :
    Call("readChain", <<>>, c, n, readChain(buf, boot, c, n))

ReadDirectoryCall ==
  \E c \in StartClusters : Call("readDirectory", <<>>, c, NoLimit, readDirectory(buf, boot, c))

(* the read accessor of a walk item (line 262) *)
WalkRead ==
  /\ pc = "returned" /\ op.name = "walk"
  /\ \E k \in 1..Len(ret.items) :
       /\ ~ret.items[k].isDir
       /\ LET e == ret.items[k].e
              ch == FileBytes(buf, boot, e)
          IN  /\ op' = [name |-> "read", path |-> ret.items[k].path,
                        start |-> e.firstCluster, limit |-> e.size]
              /\ ret' = [status |-> ch.status, null |-> FALSE, arr |-> ch.arr,
                         entry |-> <<e>>]
  /\ UNCHANGED <<buf, boot, image0, pc, writes>>

(* the caller stores a byte into the array it was returned: a store into a *)
(* view lands in the storage the view shares                               *)
CallerWrite ==
  /\ pc \in {"returned", "written"} /\ op.name \in {"readFile", "read"}
  /\ ret.status = "returned" /\ ~ret.null
  /\ Len(ret.arr.bytes) > 0
  /\ writes < MaxWrites
  /\ \E v \in WriteValues :
       /\ ret' = [ret EXCEPT !.arr.bytes[1] = v]
       /\ buf' = IF ret.arr.shared THEN [buf EXCEPT ![ret.arr.off + 1] = v] ELSE buf
  /\ writes' = writes + 1
  /\ pc' = "written"
  /\ UNCHANGED <<boot, image0, op>>

Discard ==
  /\ pc \in {"returned", "written"}
  /\ pc' = "idle" /\ op' = NoOp /\ ret' = NoRet
  /\ UNCHANGED <<buf, boot, image0, writes>>

Next ==
  \/ List \/ Exists \/ ReadFile \/ Walk
  \/ ReadChainCall \/ ReadDirectoryCall
  \/ WalkRead \/ Discard

Spec == Init /\ [][Next]_vars

(* The reader together with a caller that writes into the arrays it is     *)
(* handed, on the images that vary the file sizes.                         *)
InitCaller ==
  /\ \E p \in SizeParams : buf = Image(p)
  /\ boot = parseBoot(buf)
  /\ image0 = buf
  /\ pc = "idle"
  /\ op = NoOp
  /\ ret = NoRet
  /\ writes = 0

NextCaller == ReadFile \/ Walk \/ WalkRead \/ CallerWrite \/ Discard

SpecCaller == InitCaller /\ [][NextCaller]_vars

(***************************************************************************)
(* Properties                                                              *)
(***************************************************************************)
Fresh(name) == pc = "returned" /\ op.name = name

(* the records that decode from the clusters of the chain starting at c *)
DirRecords(c) == DecodeDirectory(readChain(buf, boot, c, NoLimit).arr.bytes).res

KindOk(name, e, last) ==
  IF ~last THEN e.isDir
  ELSE IF name = "list" THEN e.isDir
  ELSE IF name = "readFile" THEN ~e.isDir
  ELSE TRUE

Matches(name, parts, idx, c) ==
  {k \in 1..Len(DirRecords(c)) :
     /\ DirRecords(c)[k].name = parts[idx]
     /\ KindOk(name, DirRecords(c)[k], idx = Len(parts))}

First(S) == CHOOSE k \in S : \A m \in S : k <= m

(* some segment of the path is absent from its parent directory or has the *)
(* wrong kind for the operation                                            *)
RECURSIVE Mismatch(_, _, _, _)
Mismatch(name, parts, idx, c) ==
  IF idx > Len(parts) THEN FALSE
  ELSE IF Matches(name, parts, idx, c) = {} THEN TRUE
  ELSE Mismatch(name, parts, idx + 1,
                DirRecords(c)[First(Matches(name, parts, idx, c))].firstCluster)

(* every directory chain read on the way to the mismatch comes to an end *)
RECURSIVE DirsTerminate(_, _, _, _)
DirsTerminate(name, parts, idx, c) ==
  IF idx > Len(parts) THEN TRUE
  ELSE /\ readChain(buf, boot, c, NoLimit).status = "returned"
       /\ \/ Matches(name, parts, idx, c) = {}
          \/ DirsTerminate(name, parts, idx + 1,
                           DirRecords(c)[First(Matches(name, parts, idx, c))].firstCluster)

NotFound ==
  /\ ret.status = "returned"
  /\ op.name = "list" => ret.items = <<>>
  /\ op.name = "exists" => ~ret.value
  /\ op.name = "readFile" => ret.null

Lookup == pc = "returned" /\ op.name \in {"list", "exists", "readFile"}

(* C1 as stated: whenever a segment of the path is absent or of the wrong  *)
(* kind, list, exists and readFile return their not-found value, on every  *)
(* image.                                                                  *)
C1_LookupsTotal ==
  Lookup /\ Mismatch(op.name, normalizePath(op.path), 1, boot.rootDirCluster)
    => NotFound

(* C1: whenever a segment of the path is absent or of the wrong kind and   *)
(* the directory chains read on the way come to an end (no FAT cycle),     *)
(* list, exists and readFile return their not-found value.                 *)
C1_LookupsTotalOnEndingChains ==
  /\ Lookup
  /\ Mismatch(op.name, normalizePath(op.path), 1, boot.rootDirCluster)
  /\ DirsTerminate(op.name, normalizePath(op.path), 1, boot.rootDirCluster)
  => NotFound

C1_Witness ==
  /\ Fresh("readFile")
  /\ op.path = <<Slash>> \o NameD
  /\ \E k \in 1..Len(DirRecords(boot.rootDirCluster)) :
       DirRecords(boot.rootDirCluster)[k].name = NameD
  /\ Mismatch(op.name, normalizePath(op.path), 1, boot.rootDirCluster)
  /\ DirsTerminate(op.name, normalizePath(op.path), 1, boot.rootDirCluster)
  /\ ret.null

ResolvedFile == Fresh("readFile") /\ ret.status = "returned" /\ ~ret.null

(* C2 as stated: the array readFile returns for a resolved file record has *)
(* exactly the record's declared size.                                     *)
C2_ExactSize == ResolvedFile => Len(ret.arr.bytes) = ret.entry[1].size

WholeChain(e) == readChain(buf, boot, e.firstCluster, NoLimit)

(* C2: the array readFile returns for a resolved file record is never      *)
(* longer than the record's declared size, and when the file's chain read  *)
(* to its end comes to an end, its length is the smaller of the declared   *)
(* size and the bytes the chain holds inside the image.                    *)
C2_SizeOrChain ==
  ResolvedFile =>
    /\ Len(ret.arr.bytes) <= ret.entry[1].size
    /\ WholeChain(ret.entry[1]).status = "returned" =>
         Len(ret.arr.bytes) =
           Min(ret.entry[1].size, Len(WholeChain(ret.entry[1]).arr.bytes))

C2_Witness ==
  /\ ResolvedFile
  /\ ~ret.arr.shared
  /\ Len(ret.arr.bytes) = ret.entry[1].size
  /\ ret.entry[1].size % ClusterSize # 0
  /\ Len(WholeChain(ret.entry[1]).arr.bytes) > ret.entry[1].size

(* C3 as stated: exists is true of every path enumerated from list,        *)
(* whatever the entry names.                                               *)
C3_ListedPathsExist ==
  Fresh("exists") /\ op.path \in ListedPaths => ret.status = "returned" /\ ret.value

CleanListedPaths ==
  {r.path : r \in {q \in Listed(buf, boot, <<Slash>>, TRUE, MaxDepth) : q.clean}}

(* C3: exists is true of every path enumerated from list none of whose     *)
(* joined entry names holds a "/", duplicate and empty names included.     *)
C3_CleanListedPathsExist ==
  Fresh("exists") /\ op.path \in CleanListedPaths => ret.status = "returned" /\ ret.value

C3_Witness ==
  /\ Fresh("exists")
  /\ op.path \in CleanListedPaths
  /\ Len(normalizePath(op.path)) = 2
  /\ \E i, j \in 1..Len(DirRecords(boot.rootDirCluster)) :
       /\ i # j
       /\ DirRecords(boot.rootDirCluster)[i].name = DirRecords(boot.rootDirCluster)[j].name
  /\ ret.value

IsStrictPrefix(s, t) == Len(s) < Len(t) /\ SubSeq(t, 1, Len(s)) = s

WalkReturned == Fresh("walk") /\ ret.status = "returned"

(* C4: in the sequence walk returns, a directory item comes before every   *)
(* item emitted for one of its descendants, and every item below the       *)
(* walked directory's top level has its parent directory's item before it. *)
C4_PreOrder ==
  WalkReturned =>
    /\ \A i, j \in 1..Len(ret.items) :
         ret.items[i].isDir /\ IsStrictPrefix(ret.items[i].trail, ret.items[j].trail)
           => i < j
    /\ \A j \in 1..Len(ret.items) :
         Len(ret.items[j].trail) > 1 =>
           \E i \in 1..(j - 1) :
             /\ ret.items[i].isDir
             /\ ret.items[i].trail = SubSeq(ret.items[j].trail, 1,
                                             Len(ret.items[j].trail) - 1)

C4_Witness ==
  /\ WalkReturned
  /\ \E i, j, k \in 1..Len(ret.items) :
       /\ i < j /\ j < k
       /\ ret.items[i].isDir /\ ret.items[j].isDir
       /\ IsStrictPrefix(ret.items[i].trail, ret.items[j].trail)
       /\ IsStrictPrefix(ret.items[j].trail, ret.items[k].trail)

WalkFilePaths == {ret.items[k].path : k \in {n \in 1..Len(ret.items) : ~ret.items[n].isDir}}

ListFilePaths ==
  {r.path : r \in {q \in Listed(buf, boot, <<Slash>>, TRUE, MaxDepth) : ~q.isDir}}

WalkRoot == WalkReturned /\ op.path = <<Slash>>

(* C5 as stated: the file paths of walk("/") are those reconstructed from  *)
(* list, on every image.                                                   *)
C5_WalkEqualsList == WalkRoot => WalkFilePaths = ListFilePaths

DirItems == {k \in 1..Len(ret.items) : ret.items[k].isDir}

UnambiguousDirs ==
  /\ \A i, j \in DirItems : ret.items[i].path = ret.items[j].path => i = j
  /\ \A i \in DirItems :
       ret.items[i].e.name # <<>> /\ Slash \notin Range(ret.items[i].e.name)

(* C5: the file paths of walk("/") are those reconstructed from list on    *)
(* every image in which no two directories of the walk have the same path  *)
(* and no directory name is empty or holds a "/".                          *)
C5_WalkEqualsListUnambiguous ==
  WalkRoot /\ UnambiguousDirs => WalkFilePaths = ListFilePaths

C5_Witness ==
  /\ WalkRoot /\ UnambiguousDirs
  /\ Cardinality(DirItems) >= 2
  /\ \E k \in 1..Len(ret.items) : ~ret.items[k].isDir /\ Len(ret.items[k].trail) = 2
  /\ Cardinality(WalkFilePaths) >= 2

RECURSIVE ChunkSum(_, _)
ChunkSum(chunks, k) == IF k = 0 THEN 0 ELSE chunks[k].len + ChunkSum(chunks, k - 1)

LimitedChain == Fresh("readChain") /\ op.limit # NoLimit

(* C6: a chain read with limitBytes = N never returns more than N bytes;   *)
(* the chunks taken never exceed the budget left, and once the budget is   *)
(* used up no further chunk is taken.                                      *)
C6_LimitRespected ==
  LimitedChain =>
    /\ ret.status = "returned" => Len(ret.arr.bytes) <= op.limit
    /\ \A k \in 1..Len(ret.chunks) :
         /\ ChunkSum(ret.chunks, k) <= op.limit
         /\ ChunkSum(ret.chunks, k) = op.limit => k = Len(ret.chunks)

C6_Witness ==
  /\ LimitedChain /\ ret.status = "returned"
  /\ Len(ret.chunks) = 2
  /\ ret.chunks[2].len > 0 /\ ret.chunks[2].len < ClusterSize
  /\ Len(ret.arr.bytes) = op.limit
  /\ ~isEndOfChain(readFATNext(buf, boot, ret.visited[2]))

(* C7 as stated: the array a chain read returns shares no storage with the *)
(* image, so a caller writing into it leaves the image as constructed.     *)
C7_ImageUnchanged == buf = image0

ChainReturned == Fresh("readChain") /\ ret.status = "returned"

FatPastEnd(c) == boot.fatOffsetBytes + c * 4 + 4 > Len(buf)
DataPastEnd(c) == clusterOffset(boot, c) + boot.clusterSize > Len(buf)
InImageLen(c) ==
  Max(Min(clusterOffset(boot, c) + boot.clusterSize, Len(buf))
        - Min(clusterOffset(boot, c), Len(buf)), 0)

(* C8 as stated: a cluster whose FAT entry, or whose data region, reaches  *)
(* past the image end is the last cluster of the traversal.                *)
C8_StopsAtImageEnd ==
  ChainReturned =>
    \A k \in 1..Len(ret.visited) :
      FatPastEnd(ret.visited[k]) \/ DataPastEnd(ret.visited[k])
        => k = Len(ret.visited)

(* C8: a cluster whose FAT entry lies past the image end is the last of    *)
(* the traversal; a cluster whose data region reaches past the image end   *)
(* contributes its bytes inside the image (all of them when no limit is    *)
(* given), and the traversal goes on to the cluster its FAT entry names.   *)
C8_ClampsAndFollowsFat ==
  ChainReturned =>
    \A k \in 1..Len(ret.visited) :
      /\ FatPastEnd(ret.visited[k]) => k = Len(ret.visited)
      /\ ret.chunks[k].len <= InImageLen(ret.visited[k])
      /\ op.limit = NoLimit => ret.chunks[k].len = InImageLen(ret.visited[k])
      /\ k < Len(ret.visited) =>
           U32Of(ret.visited[k + 1]) = readFATNext(buf, boot, ret.visited[k])

C8_Witness ==
  /\ ChainReturned
  /\ Len(ret.visited) >= 2
  /\ DataPastEnd(ret.visited[1]) /\ InImageLen(ret.visited[1]) > 0
  /\ FatPastEnd(ret.visited[Len(ret.visited)])

DirDecoded == Fresh("readDirectory") /\ ret.status = "returned"

SlotsLeft(i) == (Len(ret.data) - i - EntrySize) \div EntrySize

(* C9: the decoder's passes start at slot 0, each resumes where the one    *)
(* before ended and ends strictly further on, and they cover the buffer;   *)
(* a pass at a 0x85 slot emits one record and takes the following          *)
(* min(secondaryCount, whole slots left) slots whatever their types; a     *)
(* pass at any other slot emits nothing and takes that slot alone.         *)
C9_EntrySets ==
  DirDecoded =>
    /\ ret.scan # <<>> => ret.scan[1].pos = 0
    /\ LET end == IF ret.scan = <<>> THEN 0 ELSE ret.scan[Len(ret.scan)].next
       IN  end + EntrySize > Len(ret.data)
    /\ \A k \in 1..Len(ret.scan) :
         /\ ret.scan[k].next > ret.scan[k].pos
         /\ k < Len(ret.scan) => ret.scan[k + 1].pos = ret.scan[k].next
         /\ IF At(ret.data, ret.scan[k].pos) = TypeFile
            THEN /\ ret.scan[k].emitted
                 /\ ret.scan[k].next = ret.scan[k].pos + EntrySize
                      * (1 + Min(At(ret.data, ret.scan[k].pos + 1),
                                 SlotsLeft(ret.scan[k].pos)))
            ELSE /\ ~ret.scan[k].emitted
                 /\ ret.scan[k].next = ret.scan[k].pos + EntrySize
    /\ Len(ret.entries) = Cardinality({k \in 1..Len(ret.scan) : ret.scan[k].emitted})

C9_Witness ==
  /\ DirDecoded
  /\ \E k \in 1..Len(ret.scan) :
       /\ ret.scan[k].emitted
       /\ At(ret.data, ret.scan[k].pos + 1) > SlotsLeft(ret.scan[k].pos)
       /\ \E n \in 1..SlotsLeft(ret.scan[k].pos) :
            At(ret.data, ret.scan[k].pos + n * EntrySize) = TypeFile

(* C10 as stated: a chain read that is given limitBytes comes to an end,   *)
(* whatever the FAT links and the image length.                            *)
C10_LimitedReadEnds ==
  /\ LimitedChain => ret.status = "returned"
  /\ pc = "returned" /\ op.name \in {"readFile", "read"} /\ ~ret.null
       => ret.status = "returned"

====
